---------------------------- MODULE Spec2Model ----------------------------
(***************************************************************************)
(* A model of the inventory application: the SQLite tables created by      *)
(* create_app (src/app.py), the request handlers that write them, and the  *)
(* password-reset blueprint (src/reset_pass.py).                           *)
(*                                                                         *)
(* Tables are sequences of rows, so that a key or UNIQUE constraint is     *)
(* something the INSERT statements enforce and not a property of the       *)
(* representation.  REAL columns hold an integer or an infinity; a NaN is  *)
(* stored by SQLite as NULL.  Each handler is one action; the handlers'    *)
(* SQL statements are operators, which the concurrent specifications       *)
(* apply one statement at a time.  Columns no handler's outcome depends on  *)
(* (unit, note, user, ts, updated_at, name of a user, and the optional      *)
(* supplier_id of items and purchases) are left out of the rows.            *)
(***************************************************************************)
EXTENDS Integers, Sequences, FiniteSets, TLC

VARIABLES
    items,          \* table items: rows [id, name, min_qty]
    suppliers,      \* table suppliers: rows [id, name]
    stock_levels,   \* table stock_levels: rows [item_id, current_qty]
    transactions,   \* table transactions: rows [id, type, item_id, qty]
    purchases,      \* table purchases: rows [id, purchased_at, item_id, qty, unit_price]
    users,          \* table users: rows [id, email, password_hash, role, is_active, email_verified]
    history,        \* history variable: the stock-changing requests the sequential handlers
                    \* have committed since Init, in commit order
    last,           \* the last request handled and how it ended
    now,            \* the clock, in seconds
    mailbox,        \* the tokens mailed so far
    pc,             \* concurrent requests: each one's position in its handler
    req             \* concurrent requests: each one's parsed form

vars == <<items, suppliers, stock_levels, transactions, purchases, users,
          history, last, now, mailbox, pc, req>>

invVars == <<items, suppliers, stock_levels, transactions, purchases, history>>

-----------------------------------------------------------------------------
(* Bounds of the model *)

\* the stock-changing requests (bump, purchase, add_tx) committed in one behaviour
MaxOps == 2

-----------------------------------------------------------------------------
(* REAL values: [inf |-> 0, v |-> n] is the number n, inf = 1 / -1 are the  *)
(* infinities float() parses from "inf" / "-inf", inf = 2 is NaN, which     *)
(* SQLite stores as NULL.                                                   *)

Fin(n) == [inf |-> 0, v |-> n]
PosInf == [inf |-> 1, v |-> 0]
NegInf == [inf |-> -1, v |-> 0]
NaN == [inf |-> 2, v |-> 0]

IsNull(x) == x.inf = 2

\* SQLite's (IEEE 754) addition: infinities absorb, inf + -inf is NaN
RAdd(a, b) ==
    IF IsNull(a) \/ IsNull(b) THEN NaN
    ELSE IF a.inf = 0 /\ b.inf = 0 THEN Fin(a.v + b.v)
    ELSE IF a.inf = 0 THEN b
    ELSE IF b.inf = 0 THEN a
    ELSE IF a.inf = b.inf THEN a
    ELSE NaN

\* Python's unary minus on a float
RNeg(a) ==
    IF a.inf = 0 THEN Fin(0 - a.v)
    ELSE IF a.inf = 1 THEN NegInf
    ELSE IF a.inf = -1 THEN PosInf
    ELSE NaN

RSign(a) ==
    IF a.inf = 0 THEN (IF a.v > 0 THEN 1 ELSE IF a.v < 0 THEN -1 ELSE 0)
    ELSE a.inf

\* SQLite's multiplication: inf * 0 is NaN
RMul(a, b) ==
    IF IsNull(a) \/ IsNull(b) THEN NaN
    ELSE IF a.inf = 0 /\ b.inf = 0 THEN Fin(a.v * b.v)
    ELSE IF RSign(a) = 0 \/ RSign(b) = 0 THEN NaN
    ELSE IF RSign(a) = RSign(b) THEN PosInf
    ELSE NegInf

-----------------------------------------------------------------------------
(* Form fields, and Python's parsing of them *)

FAbsent == [k |-> "absent", v |-> 0]     \* the field is not in the form
FJunk == [k |-> "junk", v |-> 0]         \* a text that is no number, such as "abc"
FInt(n) == [k |-> "int", v |-> n]        \* the decimal text of n
FInf == [k |-> "inf", v |-> 0]           \* the text "inf"

\* int(request.form[name])
PyInt(f) ==
    IF f.k = "absent" THEN [err |-> "BadRequestKeyError", val |-> 0]
    ELSE IF f.k = "int" THEN [err |-> "none", val |-> f.v]
    ELSE [err |-> "ValueError", val |-> 0]

\* float(request.form[name])
PyFloat(f) ==
    IF f.k = "absent" THEN [err |-> "BadRequestKeyError", val |-> NaN]
    ELSE IF f.k = "int" THEN [err |-> "none", val |-> Fin(f.v)]
    ELSE IF f.k = "inf" THEN [err |-> "none", val |-> PosInf]
    ELSE [err |-> "ValueError", val |-> NaN]

\* float(request.form.get("min_qty", 0) or 0)
PyFloatOrZero(f) ==
    IF f.k = "absent" THEN [err |-> "none", val |-> Fin(0)]
    ELSE PyFloat(f)

-----------------------------------------------------------------------------
(* The schema's constraints and the SQL statements *)

\* The handlers never issue PRAGMA foreign_keys = ON, and SQLite leaves
\* FOREIGN KEY clauses unenforced without it.
ForeignKeys == FALSE

TxTypes == {"IN", "OUT", "ADJ"}

Ids(tbl) == {tbl[k].id : k \in 1..Len(tbl)}

\* FOREIGN KEY (item_id) REFERENCES items(id)
FkItem(its, i) == ForeignKeys => i \in Ids(its)

\* the rows of stock_levels for item i
StockRows(sl, i) == {k \in 1..Len(sl) : sl[k].item_id = i}

\* INSERT INTO suppliers(name) VALUES(:n)
InsertSupplier(sups, n) ==
    IF \E k \in 1..Len(sups) : sups[k].name = n
    THEN [ok |-> FALSE, t |-> sups]
    ELSE [ok |-> TRUE, t |-> Append(sups, [id |-> Len(sups) + 1, name |-> n])]

\* INSERT INTO items(name, unit, min_qty, supplier_id) VALUES(:n,:u,:m,:sid)
InsertItem(its, n, m) ==
    IF (\E k \in 1..Len(its) : its[k].name = n) \/ IsNull(m)
    THEN [ok |-> FALSE, t |-> its]
    ELSE [ok |-> TRUE,
          t |-> Append(its, [id |-> Len(its) + 1, name |-> n, min_qty |-> m])]

InsertOrIgnoreStockSkipped(sl, its, n) == [ok |-> TRUE, t |-> sl]

\* INSERT OR IGNORE INTO stock_levels(item_id, current_qty)
\*   SELECT id, 0 FROM items WHERE name=:n
\* (name is UNIQUE, so the SELECT yields at most one row)
InsertOrIgnoreStock(sl, its, n) ==
    LET hit == {k \in 1..Len(its) : its[k].name = n}
    IN IF hit = {} THEN [ok |-> TRUE, t |-> sl]
       ELSE LET i == its[CHOOSE k \in hit : TRUE].id
            IN IF StockRows(sl, i) # {} THEN [ok |-> TRUE, t |-> sl]
               ELSE [ok |-> TRUE,
                     t |-> Append(sl, [item_id |-> i, current_qty |-> Fin(0)])]

UpsertStockAlwaysInsert(sl, its, i, q, d) ==
    [ok |-> TRUE, t |-> Append(sl, [item_id |-> i, current_qty |-> q])]

UpsertStockOverwrite(sl, its, i, q, d) ==
    IF StockRows(sl, i) = {}
    THEN [ok |-> TRUE, t |-> Append(sl, [item_id |-> i, current_qty |-> q])]
    ELSE [ok |-> TRUE,
          t |-> [k \in 1..Len(sl) |->
                   IF sl[k].item_id = i THEN [sl[k] EXCEPT !.current_qty = q]
                   ELSE sl[k]]]

\* INSERT INTO stock_levels(item_id,current_qty) VALUES(:i,:q)
\*   ON CONFLICT(item_id) DO UPDATE SET current_qty = stock_levels.current_qty + :d
\* (bump and purchase bind the same value to :q and :d)
UpsertStock(sl, its, i, q, d) ==
    IF StockRows(sl, i) = {}
    THEN IF IsNull(q) \/ ~FkItem(its, i)
         THEN [ok |-> FALSE, t |-> sl]
         ELSE [ok |-> TRUE, t |-> Append(sl, [item_id |-> i, current_qty |-> q])]
    ELSE IF \E k \in StockRows(sl, i) : IsNull(RAdd(sl[k].current_qty, d))
         THEN [ok |-> FALSE, t |-> sl]
         ELSE [ok |-> TRUE,
               t |-> [k \in 1..Len(sl) |->
                        IF sl[k].item_id = i
                        THEN [sl[k] EXCEPT !.current_qty = RAdd(sl[k].current_qty, d)]
                        ELSE sl[k]]]

UpdateStockNothing(sl, i, q) == [ok |-> TRUE, t |-> sl]

\* UPDATE stock_levels SET current_qty=:q WHERE item_id=:i
UpdateStock(sl, i, q) ==
    IF StockRows(sl, i) # {} /\ IsNull(q)
    THEN [ok |-> FALSE, t |-> sl]
    ELSE [ok |-> TRUE,
          t |-> [k \in 1..Len(sl) |->
                   IF sl[k].item_id = i THEN [sl[k] EXCEPT !.current_qty = q]
                   ELSE sl[k]]]

\* INSERT INTO transactions(type, item_id, qty, note, user) VALUES(:t,:i,:q,:n,:u)
InsertTransaction(txs, its, t, i, q) ==
    IF t \notin TxTypes \/ IsNull(q) \/ ~FkItem(its, i)
    THEN [ok |-> FALSE, t |-> txs]
    ELSE [ok |-> TRUE,
          t |-> Append(txs, [id |-> Len(txs) + 1, type |-> t, item_id |-> i, qty |-> q])]

\* INSERT INTO purchases(purchased_at,item_id,supplier_id,qty,unit_price,note)
\*   VALUES(COALESCE(:dt,CURRENT_TIMESTAMP),:i,:sid,:q,:up,:note)
InsertPurchase(pur, its, dt, i, q, up, clock) ==
    IF IsNull(q) \/ IsNull(up) \/ ~FkItem(its, i)
    THEN [ok |-> FALSE, t |-> pur]
    ELSE [ok |-> TRUE,
          t |-> Append(pur, [id |-> Len(pur) + 1,
                             purchased_at |-> IF dt.k = "int" THEN dt.v ELSE clock,
                             item_id |-> i, qty |-> q, unit_price |-> up])]

-----------------------------------------------------------------------------
(* The inventory handlers (src/app.py).  Each opens a Session, runs its     *)
(* statements inside try, commits, and on any exception rolls back.         *)

FNoText == [k |-> "absent", v |-> ""]
FText(t) == [k |-> "text", v |-> t]

Names == {"", "bolt"}
SupplierNames == {"", "acme"}
MinQtyFields == {FAbsent, FJunk}
ItemIdOk == {FInt(1), FInt(2)}
QtyOk == {FInt(1), FInf}
DeltaOk == {FInt(1)}
PriceOk == {FInt(3)}
DateFields == {FAbsent, FInt(0)}
TypeFields == {FText("IN"), FText("OUT"), FText("ADJ"), FText("MOVE")}

\* The forms submitted.  A handler parses its fields in a fixed order and the
\* first field that fails to parse ends the request, so forms with one
\* missing or malformed field produce every outcome a malformed form can.
BumpForms ==
    [item_id : ItemIdOk, delta : DeltaOk]
        \cup [item_id : {FAbsent}, delta : DeltaOk]
        \cup [item_id : {FInt(1)}, delta : {FJunk}]

PurchaseForms ==
    [p_item_id : ItemIdOk, p_qty : QtyOk, p_unit_price : PriceOk, p_date : {FAbsent}]
        \cup [p_item_id : {FJunk}, p_qty : {FInt(1)}, p_unit_price : PriceOk, p_date : {FAbsent}]
        \cup [p_item_id : {FInt(1)}, p_qty : {FAbsent}, p_unit_price : PriceOk, p_date : {FAbsent}]
        \cup [p_item_id : {FInt(1)}, p_qty : {FInt(1)}, p_unit_price : {FJunk}, p_date : {FAbsent}]

TxForms ==
    [item_id : ItemIdOk, type : TypeFields, qty : QtyOk]
        \cup [item_id : {FJunk}, type : {FText("IN")}, qty : {FInt(1)}]
        \cup [item_id : {FInt(1)}, type : {FNoText}, qty : {FInt(1)}]
        \cup [item_id : {FInt(1)}, type : {FText("IN")}, qty : {FJunk}]

Tables ==
    [items |-> items, suppliers |-> suppliers, stock_levels |-> stock_levels,
     transactions |-> transactions, purchases |-> purchases]

Stored(db) ==
    /\ items' = db.items
    /\ suppliers' = db.suppliers
    /\ stock_levels' = db.stock_levels
    /\ transactions' = db.transactions
    /\ purchases' = db.purchases

RollbackKeepsWork(pre, cur) == cur

\* s.rollback(): what the session's statements did (cur) is undone
Rollback(pre, cur) == pre

Resp(op, outcome, error, item, type, qty, price) ==
    [op |-> op, outcome |-> outcome, error |-> error, item |-> item,
     type |-> type, qty |-> qty, price |-> price]

NoRequest == Resp("none", "ok", "none", 0, "", NaN, NaN)

\* An exception raised outside the handler's try: Flask answers 400 for a
\* BadRequestKeyError and 500 for a ValueError; no statement has run.
Uncaught(op, error) ==
    /\ last' = Resp(op, "uncaught", error, 0, "", NaN, NaN)
    /\ UNCHANGED <<invVars, users, now, mailbox, pc, req>>

\* the handler's try block ended: commit, or except -> rollback and flash
Ended(r, op, item, type, qty, price, entry) ==
    /\ r.ok => Len(history) < MaxOps
    /\ Stored(IF r.ok THEN r.db ELSE Rollback(Tables, r.db))
    /\ history' = IF r.ok /\ entry THEN
                     Append(history, [op |-> op, item |-> item, type |-> type, qty |-> qty,
                                      row |-> IF op = "add_tx" THEN Len(r.db.transactions)
                                              ELSE IF op = "purchase" THEN Len(r.db.purchases)
                                              ELSE 0])
                  ELSE history
    /\ last' = IF r.ok THEN Resp(op, "ok", "none", item, type, qty, price)
               ELSE Resp(op, "caught", "IntegrityError", 0, type, NaN, NaN)
    /\ UNCHANGED <<users, now, mailbox, pc, req>>

add_supplier(name) ==
    IF name = ""
    THEN /\ last' = Resp("add_supplier", "rejected", "none", 0, "", NaN, NaN)
         /\ UNCHANGED <<invVars, users, now, mailbox, pc, req>>
    ELSE LET s1 == InsertSupplier(suppliers, name)
             r == [ok |-> s1.ok, db |-> [Tables EXCEPT !.suppliers = s1.t]]
         IN /\ Stored(IF r.ok THEN r.db ELSE Rollback(Tables, r.db))
            /\ last' = Resp("add_supplier", IF r.ok THEN "ok" ELSE "caught",
                            IF r.ok THEN "none" ELSE "IntegrityError", 0, "", NaN, NaN)
            /\ UNCHANGED <<users, history, now, mailbox, pc, req>>

\* the statements of add_item's try block, stopping at the first that fails
AddItemBody(db, name, m) ==
    LET s1 == InsertItem(db.items, name, m)
        db1 == [db EXCEPT !.items = s1.t]
        s2 == InsertOrIgnoreStock(db1.stock_levels, db1.items, name)
        db2 == [db1 EXCEPT !.stock_levels = s2.t]
    IN IF ~s1.ok THEN [ok |-> FALSE, db |-> db]
       ELSE IF ~s2.ok THEN [ok |-> FALSE, db |-> db1]
       ELSE [ok |-> TRUE, db |-> db2]

add_item(name, fmin) ==
    LET m == PyFloatOrZero(fmin)
    IN IF m.err # "none" THEN Uncaught("add_item", m.err)
       ELSE IF name = ""
       THEN /\ last' = Resp("add_item", "rejected", "none", 0, "", NaN, NaN)
            /\ UNCHANGED <<invVars, users, now, mailbox, pc, req>>
       ELSE LET r == AddItemBody(Tables, name, m.val)
            IN /\ Stored(IF r.ok THEN r.db ELSE Rollback(Tables, r.db))
               /\ last' = Resp("add_item", IF r.ok THEN "ok" ELSE "caught",
                               IF r.ok THEN "none" ELSE "IntegrityError",
                               IF r.ok THEN Len(r.db.items) ELSE 0, "", NaN, NaN)
               /\ UNCHANGED <<users, history, now, mailbox, pc, req>>

BumpBody(db, i, delta) ==
    LET s1 == UpsertStock(db.stock_levels, db.items, i, delta, delta)
    IN [ok |-> s1.ok, db |-> [db EXCEPT !.stock_levels = s1.t]]

bump(fi, fdelta) ==
    LET i == PyInt(fi)
        delta == PyFloat(fdelta)
    IN IF i.err # "none" THEN Uncaught("bump", i.err)
       ELSE IF delta.err # "none" THEN Uncaught("bump", delta.err)
       ELSE Ended(BumpBody(Tables, i.val, delta.val), "bump", i.val, "", delta.val, NaN, TRUE)

PurchaseBody(db, dt, i, q, up, clock) ==
    LET s1 == InsertPurchase(db.purchases, db.items, dt, i, q, up, clock)
        db1 == [db EXCEPT !.purchases = s1.t]
        s2 == UpsertStock(db1.stock_levels, db1.items, i, q, q)
        db2 == [db1 EXCEPT !.stock_levels = s2.t]
    IN IF ~s1.ok THEN [ok |-> FALSE, db |-> db]
       ELSE IF ~s2.ok THEN [ok |-> FALSE, db |-> db1]
       ELSE [ok |-> TRUE, db |-> db2]

purchase(fi, fq, fup, fdt) ==
    LET i == PyInt(fi)
        q == PyFloat(fq)
        up == PyFloat(fup)
    IN IF i.err # "none" THEN Uncaught("purchase", i.err)
       ELSE IF q.err # "none" THEN Uncaught("purchase", q.err)
       ELSE IF up.err # "none" THEN Uncaught("purchase", up.err)
       ELSE Ended(PurchaseBody(Tables, fdt, i.val, q.val, up.val, now),
                  "purchase", i.val, "", q.val, up.val, TRUE)

\* delta = qty if tx_type == "IN" else (-qty if tx_type == "OUT" else 0)
TxDelta(t, q) == IF t = "IN" THEN q ELSE IF t = "OUT" THEN RNeg(q) ELSE Fin(0)

AddTxBody(db, t, i, q) ==
    LET s1 == InsertTransaction(db.transactions, db.items, t, i, q)
        db1 == [db EXCEPT !.transactions = s1.t]
        s2 == UpsertStock(db1.stock_levels, db1.items, i,
                          IF t = "ADJ" THEN q ELSE TxDelta(t, q),
                          IF t = "ADJ" THEN Fin(0) ELSE TxDelta(t, q))
        db2 == [db1 EXCEPT !.stock_levels = s2.t]
        s3 == IF t = "ADJ" THEN UpdateStock(db2.stock_levels, i, q)
              ELSE [ok |-> TRUE, t |-> db2.stock_levels]
        db3 == [db2 EXCEPT !.stock_levels = s3.t]
    IN IF ~s1.ok THEN [ok |-> FALSE, db |-> db]
       ELSE IF ~s2.ok THEN [ok |-> FALSE, db |-> db1]
       ELSE IF ~s3.ok THEN [ok |-> FALSE, db |-> db2]
       ELSE [ok |-> TRUE, db |-> db3]

add_tx(fi, ft, fq) ==
    LET i == PyInt(fi)
        q == PyFloat(fq)
    IN IF i.err # "none" THEN Uncaught("add_tx", i.err)
       ELSE IF ft.k = "absent" THEN Uncaught("add_tx", "BadRequestKeyError")
       ELSE IF q.err # "none" THEN Uncaught("add_tx", q.err)
       ELSE Ended(AddTxBody(Tables, ft.v, i.val, q.val), "add_tx", i.val, ft.v, q.val, NaN, TRUE)

-----------------------------------------------------------------------------------------------------------------------------------------------------
(* purchases_list: SELECT ..., (p.qty*p.unit_price) AS amount FROM          *)
(* purchases p JOIN items i ON i.id=p.item_id ORDER BY p.purchased_at DESC  *)
(* LIMIT 200.  SQL leaves the order among rows of equal purchased_at open;  *)
(* TieOrders are the two orders that put the newest row (the greatest id)  *)
(* first and last among its equals.                                         *)

ListLimit == 200

TieOrders == {"id ASC", "id DESC"}

PurchaseAmountSum(q, up) == RAdd(q, up)

\* (p.qty*p.unit_price) AS amount
PurchaseAmount(q, up) == RMul(q, up)

\* the rows of purchases JOIN items, with the computed column
JoinedPurchases(pur, its) ==
    {[id |-> pur[x[1]].id, purchased_at |-> pur[x[1]].purchased_at, item |-> its[x[2]].name,
      qty |-> pur[x[1]].qty, unit_price |-> pur[x[1]].unit_price,
      amount |-> PurchaseAmount(pur[x[1]].qty, pur[x[1]].unit_price)] :
        x \in {y \in (1..Len(pur)) \X (1..Len(its)) : its[y[2]].id = pur[y[1]].item_id}}

\* x sorts before r under ORDER BY purchased_at DESC, ties broken by tie
SortsBefore(x, r, tie) ==
    \/ x.purchased_at > r.purchased_at
    \/ /\ x.purchased_at = r.purchased_at
       /\ IF tie = "id ASC" THEN x.id < r.id ELSE x.id > r.id

\* the rows purchases_list hands to the template: the first ListLimit of the order
PurchasesList(pur, its, tie) ==
    LET rows == JoinedPurchases(pur, its)
    IN {r \in rows : Cardinality({x \in rows : SortsBefore(x, r, tie)}) < ListLimit}

-----------------------------------------------------------------------------
(* The sequential specification of the inventory: requests handled one at  *)
(* a time, from the empty database create_app makes.                       *)

InitRest ==
    /\ users = <<>>
    /\ history = <<>>
    /\ last = NoRequest
    /\ now = 1
    /\ mailbox = {}
    /\ pc = <<>>
    /\ req = <<>>

Init ==
    /\ items = <<>>
    /\ suppliers = <<>>
    /\ stock_levels = <<>>
    /\ transactions = <<>>
    /\ purchases = <<>>
    /\ InitRest

Next ==
    \/ \E n \in Names, fm \in MinQtyFields : add_item(n, fm)
    \/ \E f \in BumpForms : bump(f.item_id, f.delta)
    \/ \E f \in PurchaseForms : purchase(f.p_item_id, f.p_qty, f.p_unit_price, f.p_date)
    \/ \E f \in TxForms : add_tx(f.item_id, f.type, f.qty)

Spec == Init /\ [][Next]_vars

\* every handler of the inventory, add_supplier included
NextDesk ==
    \/ Next
    \/ \E n \in SupplierNames : add_supplier(n)

SpecDesk == Init /\ [][NextDesk]_vars

-----------------------------------------------------------------------------
(* A database that already holds ListLimit purchases of one item, each of  *)
(* quantity 1 and dated 1: the state after that many purchase requests.    *)

InitBacklog ==
    /\ items = <<[id |-> 1, name |-> "bolt", min_qty |-> Fin(0)]>>
    /\ suppliers = <<>>
    /\ stock_levels = <<[item_id |-> 1, current_qty |-> Fin(ListLimit)]>>
    /\ transactions = <<>>
    /\ purchases = [k \in 1..ListLimit |->
                      [id |-> k, purchased_at |-> 1, item_id |-> 1, qty |-> Fin(1),
                       unit_price |-> Fin(3)]]
    /\ InitRest

DatedPurchaseForms ==
    PurchaseForms
        \cup [p_item_id : ItemIdOk, p_qty : QtyOk, p_unit_price : PriceOk,
              p_date : {FInt(0), FInt(2)}]

NextBacklog ==
    \E f \in DatedPurchaseForms : purchase(f.p_item_id, f.p_qty, f.p_unit_price, f.p_date)

SpecBacklog == InitBacklog /\ [][NextBacklog]_vars

-----------------------------------------------------------------------------
(* Properties of the inventory handlers *)

Front(s) == SubSeq(s, 1, Len(s) - 1)

ItemIds == Ids(items)

\* the ids any stock-changing request has named
StockIds == {stock_levels[k].item_id : k \in 1..Len(stock_levels)}

\* the entries of the history that name item i
OnItem(i) == {k \in 1..Len(history) : history[k].item = i}

\* the sum of the qty column over the transactions of type t on item i
RECURSIVE SumQty(_, _, _)
SumQty(txs, i, t) ==
    IF txs = <<>> THEN Fin(0)
    ELSE LET x == txs[Len(txs)]
         IN RAdd(SumQty(Front(txs), i, t),
                 IF x.item_id = i /\ x.type = t THEN x.qty ELSE Fin(0))

\* C1: an item that only successful IN and OUT add_tx requests have touched
\* (at least one of them), starting from no stock_levels row or from the row
\* add_item makes with current_qty 0, has exactly one stock_levels row, and its
\* current_qty is the sum of the IN quantities minus the sum of the OUT
\* quantities.
C1_InOutSum ==
    \A i \in StockIds \cup {1, 2} :
        (/\ OnItem(i) # {}
         /\ \A k \in OnItem(i) : history[k].op = "add_tx" /\ history[k].type \in {"IN", "OUT"})
        => /\ Cardinality(StockRows(stock_levels, i)) = 1
           /\ \A k \in StockRows(stock_levels, i) :
                 stock_levels[k].current_qty =
                     RAdd(SumQty(transactions, i, "IN"), RNeg(SumQty(transactions, i, "OUT")))

\* an IN and then an OUT on an id that had no stock_levels row, and one IN
\* after another on an item add_item made
C1_Witness ==
    \/ /\ Len(history) = 2
       /\ 2 \notin ItemIds
       /\ history[1].item = 2 /\ history[1].op = "add_tx" /\ history[1].type = "IN"
       /\ history[2].item = 2 /\ history[2].op = "add_tx" /\ history[2].type = "OUT"
       /\ history[1].qty # history[2].qty
    \/ /\ Len(history) = 2
       /\ 1 \in ItemIds
       /\ \A k \in 1..2 : history[k].item = 1 /\ history[k].op = "add_tx"
                            /\ history[k].type = "IN" /\ history[k].qty = Fin(1)

\* C2: a successful add_tx of type ADJ with quantity q leaves exactly one
\* stock_levels row for the item, holding q, and appends exactly one
\* transactions row, of type ADJ and qty q.
C2_AdjSets ==
    [][(last'.op = "add_tx" /\ last'.type = "ADJ" /\ last'.outcome = "ok")
        => /\ Cardinality(StockRows(stock_levels', last'.item)) = 1
           /\ \A k \in StockRows(stock_levels', last'.item) :
                 stock_levels'[k].current_qty = last'.qty
           /\ transactions' = Append(transactions,
                                     [id |-> Len(transactions) + 1, type |-> "ADJ",
                                      item_id |-> last'.item, qty |-> last'.qty])]_vars

\* an ADJ to 1 right after an IN of another quantity on the same item
C2_Witness ==
    /\ last.op = "add_tx" /\ last.type = "ADJ" /\ last.outcome = "ok" /\ last.qty = Fin(1)
    /\ Len(history) = 2
    /\ history[1].item = last.item /\ history[1].type = "IN" /\ history[1].qty = PosInf
    /\ \A k \in StockRows(stock_levels, last.item) : stock_levels[k].current_qty = Fin(1)

\* what a successful purchase of q at unit price p on item i does to the
\* tables: one purchases row more, i's current_qty up by q (a new row holding q
\* when i had none), every other row of stock_levels as it was
PurchaseEffect ==
    LET i == last'.item
        q == last'.qty
        new == Len(purchases) + 1
    IN /\ Len(purchases') = new
       /\ SubSeq(purchases', 1, Len(purchases)) = purchases
       /\ purchases'[new].item_id = i
       /\ purchases'[new].qty = q
       /\ purchases'[new].unit_price = last'.price
       /\ Cardinality(StockRows(stock_levels', i)) = 1
       /\ \A k \in StockRows(stock_levels', i) :
             stock_levels'[k].current_qty =
                 IF StockRows(stock_levels, i) = {} THEN q
                 ELSE RAdd(stock_levels[CHOOSE j \in StockRows(stock_levels, i) : TRUE].current_qty, q)
       /\ \A k \in 1..Len(stock_levels) :
             stock_levels[k].item_id # i => stock_levels'[k] = stock_levels[k]

PurchaseStep == last'.op = "purchase" /\ last'.outcome = "ok" /\ last'.item \in ItemIds

NotOlder(pur, its) ==
    {x \in JoinedPurchases(pur, its) :
        x.id # Len(pur) /\ x.purchased_at >= pur[Len(pur)].purchased_at}

C4_OneStockRowPerItem ==
    \A i \in ItemIds : Cardinality(StockRows(stock_levels, i)) = 1

\* an item made by add_item after a stock-changing request had already named
\* its id, and a second request on it since
C4_Witness ==
    /\ 1 \in ItemIds
    /\ Len(history) = 2
    /\ history[1].item = 1 /\ history[2].item = 1
    /\ last.op = "add_item" /\ last.outcome = "ok"

\* the value the recorded ledger rows of item i give, replayed from 0 in the
\* order they were committed
RECURSIVE Replay(_, _)
Replay(h, i) ==
    IF h = <<>> THEN Fin(0)
    ELSE LET e == h[Len(h)]
             prev == Replay(Front(h), i)
         IN IF e.item # i \/ e.op = "bump" THEN prev
            ELSE IF e.op = "purchase" THEN RAdd(prev, purchases[e.row].qty)
            ELSE IF transactions[e.row].type = "ADJ" THEN transactions[e.row].qty
            ELSE IF transactions[e.row].type = "IN" THEN RAdd(prev, transactions[e.row].qty)
            ELSE RAdd(prev, RNeg(transactions[e.row].qty))

\* C5: each item's current_qty is the replay of its ledger rows.
C5_LedgerReplay ==
    \A i \in ItemIds :
        \A k \in StockRows(stock_levels, i) : stock_levels[k].current_qty = Replay(history, i)

\* the same, for the items no bump has named
LedgerReplayWithoutBump ==
    \A i \in ItemIds :
        (\A k \in OnItem(i) : history[k].op # "bump")
        => \A k \in StockRows(stock_levels, i) : stock_levels[k].current_qty = Replay(history, i)

\* C8: no request of the five handlers ends in an exception the handler does
\* not catch.
C8_AllCaught == last.outcome # "uncaught"

\* the current_qty a committed request must leave on its item: q for an ADJ,
\* else the old value (0 when the item had no row) plus the signed quantity
CommittedQty ==
    LET i == last'.item
        d == IF last'.op = "purchase" THEN last'.qty ELSE TxDelta(last'.type, last'.qty)
    IN IF last'.type = "ADJ" THEN last'.qty
       ELSE IF StockRows(stock_levels, i) = {} THEN d
       ELSE RAdd(stock_levels[CHOOSE j \in StockRows(stock_levels, i) : TRUE].current_qty, d)

\* the ledger row of the request and its stock_levels change are both stored
BothCommitted ==
    /\ Cardinality(StockRows(stock_levels', last'.item)) = 1
    /\ last'.op = "add_item"
          => /\ Len(items') = Len(items) + 1
             /\ items'[Len(items')].id = last'.item
             /\ UNCHANGED <<transactions, purchases>>
    /\ last'.op = "add_tx"
          => /\ Len(transactions') = Len(transactions) + 1
             /\ transactions'[Len(transactions')].item_id = last'.item
             /\ transactions'[Len(transactions')].qty = last'.qty
             /\ UNCHANGED <<items, purchases>>
    /\ last'.op = "purchase"
          => /\ Len(purchases') = Len(purchases) + 1
             /\ purchases'[Len(purchases')].item_id = last'.item
             /\ purchases'[Len(purchases')].qty = last'.qty
             /\ UNCHANGED <<items, transactions>>
    /\ last'.op # "add_item"
          => \A k \in StockRows(stock_levels', last'.item) :
                stock_levels'[k].current_qty = CommittedQty

\* C9: a step of add_tx, purchase or add_item either commits its ledger row
\* together with its stock_levels change, or leaves items, stock_levels,
\* transactions and purchases exactly as they were.
C9_AllOrNothing ==
    [][last'.op \in {"add_tx", "purchase", "add_item"}
        => \/ last'.outcome = "ok" /\ BothCommitted
           \/ /\ last'.outcome # "ok"
              /\ UNCHANGED <<items, stock_levels, transactions, purchases>>]_vars

\* an add_tx whose INSERT INTO transactions succeeded and whose upsert then
\* failed (inf + -inf is NULL, current_qty is NOT NULL)
C9_Witness ==
    /\ last.op = "add_tx" /\ last.outcome = "caught" /\ last.type \in {"IN", "OUT"}
    /\ Len(history) = 1
    /\ Len(transactions) = 1

-----------------------------------------------------------------------------
(* Concurrent requests on one item.  Each request runs the statements of   *)
(* its handler one step at a time on the shared tables and then commits;   *)
(* a statement is atomic and nothing else orders the requests.  SQLite's   *)
(* file lock lets fewer interleavings through, never more.  The requests   *)
(* carry finite quantities, so every statement succeeds and every request  *)
(* commits.                                                                *)

\* the concurrent requests
NumProcs == 2

Procs == 1..NumProcs

\* the item all of them name
SameItem == 1

ConcForms ==
    {[op |-> "bump", type |-> "", qty |-> Fin(1)],
     [op |-> "purchase", type |-> "", qty |-> Fin(2)],
     [op |-> "add_tx", type |-> "IN", qty |-> Fin(4)],
     [op |-> "add_tx", type |-> "OUT", qty |-> Fin(1)],
     [op |-> "add_tx", type |-> "ADJ", qty |-> Fin(3)],
     [op |-> "add_tx", type |-> "ADJ", qty |-> Fin(7)]}

\* the batch starts on the empty database, or after add_item and an ADJ to 5
InitConc ==
    /\ suppliers = <<>>
    /\ purchases = <<>>
    /\ users = <<>>
    /\ history = <<>>
    /\ now = 1
    /\ mailbox = {}
    /\ \/ /\ items = <<>>
          /\ stock_levels = <<>>
          /\ transactions = <<>>
          /\ last = NoRequest
       \/ /\ items = <<[id |-> SameItem, name |-> "bolt", min_qty |-> Fin(0)]>>
          /\ stock_levels = <<[item_id |-> SameItem, current_qty |-> Fin(5)]>>
          /\ transactions = <<[id |-> 1, type |-> "ADJ", item_id |-> SameItem, qty |-> Fin(5)]>>
          /\ last = Resp("add_tx", "ok", "none", SameItem, "ADJ", Fin(5), NaN)
    /\ pc = [p \in Procs |-> "start"]
    /\ req \in [Procs -> ConcForms]

\* the first statement of p's handler: the ledger INSERT of purchase and
\* add_tx; bump has none
ConcInsert(p) ==
    /\ pc[p] = "start"
    /\ req[p].op # "bump"
    /\ LET s1 == IF req[p].op = "purchase"
                 THEN InsertPurchase(purchases, items, FAbsent, SameItem, req[p].qty, Fin(3), now)
                 ELSE InsertTransaction(transactions, items, req[p].type, SameItem, req[p].qty)
       IN /\ s1.ok
          /\ IF req[p].op = "purchase"
             THEN purchases' = s1.t /\ UNCHANGED transactions
             ELSE transactions' = s1.t /\ UNCHANGED purchases
    /\ pc' = [pc EXCEPT ![p] = "upsert"]
    /\ UNCHANGED <<items, suppliers, stock_levels, users, history, last, now, mailbox, req>>

\* the INSERT ... ON CONFLICT DO UPDATE of p's handler
ConcUpsert(p) ==
    /\ pc[p] = IF req[p].op = "bump" THEN "start" ELSE "upsert"
    /\ LET d == IF req[p].op = "add_tx" THEN TxDelta(req[p].type, req[p].qty) ELSE req[p].qty
           s2 == UpsertStock(stock_levels, items, SameItem,
                             IF req[p].type = "ADJ" THEN req[p].qty ELSE d,
                             IF req[p].type = "ADJ" THEN Fin(0) ELSE d)
       IN /\ s2.ok
          /\ stock_levels' = s2.t
    /\ pc' = [pc EXCEPT ![p] = IF req[p].type = "ADJ" THEN "update" ELSE "commit"]
    /\ UNCHANGED <<items, suppliers, transactions, purchases, users, history, last, now,
                   mailbox, req>>

\* the UPDATE an ADJ ends with
ConcUpdate(p) ==
    /\ pc[p] = "update"
    /\ LET s3 == UpdateStock(stock_levels, SameItem, req[p].qty)
       IN /\ s3.ok
          /\ stock_levels' = s3.t
    /\ pc' = [pc EXCEPT ![p] = "commit"]
    /\ UNCHANGED <<items, suppliers, transactions, purchases, users, history, last, now,
                   mailbox, req>>

\* s.commit()
ConcCommit(p) ==
    /\ pc[p] = "commit"
    /\ pc' = [pc EXCEPT ![p] = "done"]
    /\ UNCHANGED <<invVars, users, last, now, mailbox, req>>

NextConc ==
    \E p \in Procs :
        \/ ConcInsert(p)
        \/ ConcUpsert(p)
        \/ ConcUpdate(p)
        \/ ConcCommit(p)

SpecConc == InitConc /\ [][NextConc]_vars

\* current_qty of the item when the batch began (0 with no row)
InitialQty == IF last.op = "add_tx" THEN last.qty ELSE Fin(0)

\* what request r makes of current_qty v when it runs alone
Serial(v, r) ==
    IF r.type = "ADJ" THEN r.qty
    ELSE RAdd(v, IF r.op = "add_tx" THEN TxDelta(r.type, r.qty) ELSE r.qty)

RECURSIVE SerialResult(_, _)
SerialResult(v, order) ==
    IF order = <<>> THEN v
    ELSE Serial(SerialResult(v, Front(order)), req[order[Len(order)]])

\* every order the requests can run in one after another
Orders == {o \in [Procs -> Procs] : \A p, q \in Procs : o[p] = o[q] => p = q}

RECURSIVE SumDeltas(_)
SumDeltas(ps) ==
    IF ps = {} THEN Fin(0)
    ELSE LET p == CHOOSE x \in ps : TRUE
         IN RAdd(Serial(Fin(0), req[p]), SumDeltas(ps \ {p}))

AllCommitted == \A p \in Procs : pc[p] = "done"

\* C10: once every request of the batch has committed, the item has one
\* stock_levels row; without an ADJ in the batch its current_qty is the
\* initial value plus every request's signed quantity, and with one it is
\* what some serial order of the requests gives.
C10_NoLostUpdate ==
    AllCommitted
    => /\ Cardinality(StockRows(stock_levels, SameItem)) = 1
       /\ \A k \in StockRows(stock_levels, SameItem) :
             /\ (\A p \in Procs : req[p].type # "ADJ")
                   => stock_levels[k].current_qty = RAdd(InitialQty, SumDeltas(Procs))
             /\ \E o \in Orders : stock_levels[k].current_qty = SerialResult(InitialQty, o)
       /\ Len(transactions) + Len(purchases)
             = Cardinality({p \in Procs : req[p].op # "bump"})
                  + (IF last.op = "add_tx" THEN 1 ELSE 0)

\* a committed batch of two different increments
C10_WitnessSum ==
    /\ AllCommitted
    /\ \E p, q \in Procs :
          /\ p # q
          /\ req[p].type # "ADJ" /\ req[q].type # "ADJ"
          /\ req[p].op # req[q].op
    /\ stock_levels[1].current_qty # InitialQty

\* a committed batch of an ADJ to 7 and an IN of 4 whose increment landed
\* after the ADJ's UPDATE
C10_Witness ==
    /\ AllCommitted
    /\ \E p, q \in Procs : req[p] = [op |-> "add_tx", type |-> "ADJ", qty |-> Fin(7)]
                            /\ req[q].type = "IN"
    /\ \A p \in Procs : req[p].type \in {"ADJ", "IN"}
    /\ stock_levels[1].current_qty = Fin(11)

-----------------------------------------------------------------------------
(* Users: the admin bootstrap of create_app and register_post (src/app.py). *)
(* Both count the users and insert in separate statements, so each is two  *)
(* steps of a request and other requests may run in between.               *)

\* generate_password_hash: a salted hash; the salt is drawn at random
Salts == {1, 2}
PasswordHash(pw, salt) == [pw |-> pw, salt |-> salt]

\* str.lower() on the addresses of the model
Lower(e) == IF e = "Ann@x" THEN "ann@x" ELSE e

InsertUserNoUnique(us, e, ph, role) ==
    [ok |-> TRUE,
     t |-> Append(us, [id |-> Len(us) + 1, email |-> e, password_hash |-> ph,
                       role |-> role, is_active |-> TRUE, email_verified |-> FALSE])]

\* INSERT INTO users(email, name, password_hash, role) VALUES(:e,:n,:ph,'owner')
\* email is UNIQUE; is_active and email_verified take the defaults the
\* upgrade script gives the columns
InsertUser(us, e, ph, role) ==
    IF \E k \in 1..Len(us) : us[k].email = e
    THEN [ok |-> FALSE, t |-> us]
    ELSE [ok |-> TRUE,
          t |-> Append(us, [id |-> Len(us) + 1, email |-> e, password_hash |-> ph,
                            role |-> role, is_active |-> TRUE, email_verified |-> FALSE])]

\* the forms of /register, and the ADMIN_EMAIL / ADMIN_PASSWORD of a start
AuthForms ==
    [op : {"register_post"}, name : {"Ann"}, email : {"ann@x", "Ann@x", "bob@x"},
     password : {"pw"}]
        \cup [op : {"register_post"}, name : {""}, email : {"ann@x"}, password : {"pw"}]
        \cup [op : {"register_post"}, name : {"Ann"}, email : {""}, password : {"pw"}]
        \cup [op : {"register_post"}, name : {"Ann"}, email : {"ann@x"}, password : {""}]
        \cup [op : {"bootstrap"}, name : {"Admin"}, email : {"ann@x", "Ann@x"},
              password : {"pw"}]
        \cup [op : {"bootstrap"}, name : {"Admin"}, email : {""}, password : {"pw"}]

NoForm == [op |-> "none", name |-> "", email |-> "", password |-> ""]

InitAuth ==
    /\ items = <<>>
    /\ suppliers = <<>>
    /\ stock_levels = <<>>
    /\ transactions = <<>>
    /\ purchases = <<>>
    /\ users = <<>>
    /\ history = <<>>
    /\ last = NoRequest
    /\ now = 1
    /\ mailbox = {}
    /\ pc = [p \in Procs |-> "idle"]
    /\ req = [p \in Procs |-> NoForm]

\* the response is sent; the request and its form are gone
AuthEnd(p, op, outcome, error) ==
    /\ pc' = [pc EXCEPT ![p] = "idle"]
    /\ req' = [req EXCEPT ![p] = NoForm]
    /\ last' = Resp(op, outcome, error, 0, "", NaN, NaN)

\* a request arrives, or the application starts
Arrive(p, f) ==
    /\ pc[p] = "idle"
    /\ req' = [req EXCEPT ![p] = f]
    /\ pc' = [pc EXCEPT ![p] = "count"]
    /\ UNCHANGED <<invVars, users, last, now, mailbox>>

\* register_post, first session: SELECT COUNT(*) FROM users, closed when > 0;
\* then the form's fields, all required
register_post_count(p) ==
    /\ pc[p] = "count"
    /\ req[p].op = "register_post"
    /\ IF Len(users) > 0
       THEN AuthEnd(p, "register_post", "closed", "none")
       ELSE IF req[p].name = "" \/ Lower(req[p].email) = "" \/ req[p].password = ""
       THEN AuthEnd(p, "register_post", "rejected", "none")
       ELSE pc' = [pc EXCEPT ![p] = "insert"] /\ UNCHANGED <<last, req>>
    /\ UNCHANGED <<invVars, users, now, mailbox>>

\* register_post, second session: the INSERT, commit, or rollback and flash
register_post_insert(p) ==
    /\ pc[p] = "insert"
    /\ req[p].op = "register_post"
    /\ \E salt \in Salts :
          LET s1 == InsertUser(users, Lower(req[p].email),
                               PasswordHash(req[p].password, salt), "owner")
          IN /\ users' = (IF s1.ok THEN s1.t ELSE users)
             /\ AuthEnd(p, "register_post", IF s1.ok THEN "ok" ELSE "caught",
                        IF s1.ok THEN "none" ELSE "IntegrityError")
    /\ UNCHANGED <<invVars, now, mailbox>>

\* create_app: if admin_email and admin_pass: count = SELECT COUNT(*) FROM users
bootstrap_count(p) ==
    /\ pc[p] = "count"
    /\ req[p].op = "bootstrap"
    /\ IF req[p].email = "" \/ req[p].password = "" \/ Len(users) # 0
       THEN AuthEnd(p, "bootstrap", "skipped", "none")
       ELSE pc' = [pc EXCEPT ![p] = "insert"] /\ UNCHANGED <<last, req>>
    /\ UNCHANGED <<invVars, users, now, mailbox>>

\* create_app: if count == 0: INSERT INTO users ... 'owner'; an IntegrityError
\* leaves engine.begin() and create_app, and the transaction is rolled back
bootstrap_insert(p) ==
    /\ pc[p] = "insert"
    /\ req[p].op = "bootstrap"
    /\ \E salt \in Salts :
          LET s1 == InsertUser(users, req[p].email,
                               PasswordHash(req[p].password, salt), "owner")
          IN /\ users' = (IF s1.ok THEN s1.t ELSE users)
             /\ AuthEnd(p, "bootstrap", IF s1.ok THEN "ok" ELSE "uncaught",
                        IF s1.ok THEN "none" ELSE "IntegrityError")
    /\ UNCHANGED <<invVars, now, mailbox>>

NextAuth ==
    \E p \in Procs :
        \/ \E f \in AuthForms : Arrive(p, f)
        \/ register_post_count(p)
        \/ register_post_insert(p)
        \/ bootstrap_count(p)
        \/ bootstrap_insert(p)

SpecAuth == InitAuth /\ [][NextAuth]_vars

Emails(us) == {us[k].email : k \in 1..Len(us)}

\* p's register_post ends in this step
RegisterEnds(p) ==
    /\ req[p].op = "register_post"
    /\ pc[p] \in {"count", "insert"}
    /\ pc'[p] = "idle"

\* C7: no two users rows have the same email, and a register_post whose
\* (lower-cased) email already belongs to a users row ends rejected, with the
\* users table as it was.
C7_DuplicateEmailRejected ==
    /\ [](\A j, k \in 1..Len(users) : users[j].email = users[k].email => j = k)
    /\ [][\A p \in Procs :
            (RegisterEnds(p) /\ Lower(req[p].email) \in Emails(users))
            => users' = users /\ last'.outcome \in {"closed", "caught"}]_vars

\* a register_post that passed the count while the table was empty and met
\* the UNIQUE constraint at its INSERT, after another request's INSERT
C7_Witness ==
    /\ last.op = "register_post" /\ last.outcome = "caught"
    /\ Len(users) = 1

\* /register alone: no bootstrap, every request is a register_post
RegisterForms == {f \in AuthForms : f.op = "register_post"}

NextRegister ==
    \E p \in Procs :
        \/ \E f \in RegisterForms : Arrive(p, f)
        \/ register_post_count(p)
        \/ register_post_insert(p)

SpecRegister == InitAuth /\ [][NextRegister]_vars

\* p's register_post adds a users row in this step
RegisterInserts(p) ==
    /\ req[p].op = "register_post"
    /\ pc[p] = "insert"
    /\ Len(users') > Len(users)

\* C11: a register_post adds a users row only to an empty users table, and
\* the register_post requests together, in any order and interleaving, leave
\* at most one users row.
C11_RegistrationClosed ==
    [][/\ \A p \in Procs : RegisterInserts(p) => Len(users) = 0
       /\ Len(users') <= 1]_vars

\* two register_post requests with different emails both counted an empty
\* table, and both rows are in
C11_TwoRegistered ==
    /\ Len(users) = 2
    /\ users[1].email # users[2].email
    /\ last.op = "register_post" /\ last.outcome = "ok"

-----------------------------------------------------------------------------
(* Password reset (src/reset_pass.py).  A token is what the itsdangerous   *)
(* URLSafeTimedSerializer signs: the payload, the second it was signed, and *)
(* a signature that is valid when made with the application's secret and   *)
(* the salt "inv-sign".                                                     *)

\* the clock's last second
MaxTime == 3603

\* the tokens mailed in one behaviour
MaxMail == 2

\* how far the clock moves between requests
TickSteps == {1800, 1801}

SecretKey == "FLASK_SECRET_KEY"

\* _signer().dumps(payload)
make_token(payload, clock) ==
    [payload |-> payload, iat |-> clock, key |-> SecretKey, salt |-> "inv-sign"]

LoadTokenNoExpiry(token, max_age, clock) ==
    IF token.key # SecretKey \/ token.salt # "inv-sign" THEN [ok |-> FALSE, data |-> token.payload]
    ELSE [ok |-> TRUE, data |-> token.payload]

\* _signer().loads(token, max_age=max_age): None for a BadSignature, and for a
\* SignatureExpired, which itsdangerous raises when age > max_age
load_token(token, max_age, clock) ==
    IF token.key # SecretKey \/ token.salt # "inv-sign" THEN [ok |-> FALSE, data |-> token.payload]
    ELSE IF clock - token.iat > max_age THEN [ok |-> FALSE, data |-> token.payload]
    ELSE [ok |-> TRUE, data |-> token.payload]

\* max_age=60*60 in reset_form and reset_submit
ResetMaxAge == 3600

\* the payload of forgot_post carries the time as "ts"; send_verification_email's has none
Payload(email, ts) == [email |-> email, ts |-> ts]
NoTs == -1

\* tokens nobody signed with the secret: any payload, any age
ForgedTokens ==
    {[payload |-> Payload("ann@x", now), iat |-> now, key |-> "guess", salt |-> "inv-sign"]}

ResetEmails == {"ann@x", "Ann@x", "bob@x", "eve@x"}

\* the password and confirm fields of the reset form
ResetForms ==
    {[password |-> "pw1", confirm |-> "pw1"], [password |-> "pw2", confirm |-> "pw2"],
     [password |-> "", confirm |-> ""], [password |-> "pw1", confirm |-> "pw2"]}

\* ann is active, bob is not, eve is nobody
InitReset ==
    /\ items = <<>>
    /\ suppliers = <<>>
    /\ stock_levels = <<>>
    /\ transactions = <<>>
    /\ purchases = <<>>
    /\ users = <<[id |-> 1, email |-> "ann@x", password_hash |-> PasswordHash("pw", 1),
                  role |-> "owner", is_active |-> TRUE, email_verified |-> FALSE],
                 [id |-> 2, email |-> "bob@x", password_hash |-> PasswordHash("pw", 1),
                  role |-> "staff", is_active |-> FALSE, email_verified |-> FALSE]>>
    /\ history = <<>>
    /\ last = [op |-> "none", outcome |-> "ok", error |-> "none",
               token |-> make_token(Payload("", NoTs), 0), password |-> "", confirm |-> ""]
    /\ now = 1
    /\ mailbox = {}
    /\ pc = <<>>
    /\ req = <<>>

ResetResp(op, outcome, error, token, password, confirm) ==
    [op |-> op, outcome |-> outcome, error |-> error, token |-> token,
     password |-> password, confirm |-> confirm]

\* select(User).where(User.email == email, User.is_active == True)
ActiveUsers(us, email) == {k \in 1..Len(us) : us[k].email = email /\ us[k].is_active}

Tick(d) ==
    /\ now + d <= MaxTime
    /\ now' = now + d
    /\ UNCHANGED <<invVars, users, last, mailbox, pc, req>>

\* send_email: the token leaves in a link
Mail(token) ==
    /\ Cardinality(mailbox \cup {token}) <= MaxMail
    /\ mailbox' = mailbox \cup {token}

forgot_post(femail) ==
    LET email == Lower(femail)
        token == make_token(Payload(email, now), now)
    IN /\ IF ActiveUsers(users, email) = {}
          THEN UNCHANGED mailbox
          ELSE Mail(token)
       /\ last' = ResetResp("forgot_post", "ok", "none", token, "", "")
       /\ UNCHANGED <<invVars, users, now, pc, req>>

send_verification_email(email) ==
    LET token == make_token(Payload(email, NoTs), now)
    IN /\ Mail(token)
       /\ last' = ResetResp("send_verification_email", "ok", "none", token, "", "")
       /\ UNCHANGED <<invVars, users, now, pc, req>>

reset_submit(token, password, confirm) ==
    LET data == load_token(token, ResetMaxAge, now)
        found == ActiveUsers(users, data.data.email)
    IN /\ IF ~data.ok
          THEN /\ last' = ResetResp("reset_submit", "rejected", "token", token, password, confirm)
               /\ UNCHANGED users
          ELSE IF password = "" \/ password # confirm
          THEN /\ last' = ResetResp("reset_submit", "rejected", "password", token, password, confirm)
               /\ UNCHANGED users
          ELSE IF found = {}
          THEN /\ last' = ResetResp("reset_submit", "rejected", "account", token, password, confirm)
               /\ UNCHANGED users
          ELSE IF Cardinality(found) > 1
          THEN /\ last' = ResetResp("reset_submit", "uncaught", "MultipleResultsFound",
                                    token, password, confirm)
               /\ UNCHANGED users
          ELSE \E salt \in Salts :
                  /\ users' = [k \in 1..Len(users) |->
                                 IF k \in found
                                 THEN [users[k] EXCEPT
                                          !.password_hash = PasswordHash(password, salt),
                                          !.email_verified = TRUE]
                                 ELSE users[k]]
                  /\ last' = ResetResp("reset_submit", "ok", "none", token, password, confirm)
       /\ UNCHANGED <<invVars, now, mailbox, pc, req>>

NextReset ==
    \/ \E d \in TickSteps : Tick(d)
    \/ \E e \in ResetEmails : forgot_post(e)
    \/ \E e \in ResetEmails : send_verification_email(e)
    \/ \E t \in mailbox \cup ForgedTokens, f \in ResetForms :
          reset_submit(t, f.password, f.confirm)

SpecReset == InitReset /\ [][NextReset]_vars

Hashes(us) == [k \in 1..Len(us) |-> us[k].password_hash]

\* the step is a reset_submit request (the clock stands still while a request
\* is handled, and no other request leaves last.op = "reset_submit")
ResetStep == last'.op = "reset_submit" /\ now' = now

\* an expired token, or one with a bad signature
Unacceptable(token, clock) ==
    \/ clock - token.iat > ResetMaxAge
    \/ token.key # SecretKey
    \/ token.salt # "inv-sign"

\* C6, first half: reset_submit rejects a token older than ResetMaxAge seconds
\* and a token whose signature is invalid, and changes no password_hash
RejectsUnacceptable ==
    (ResetStep /\ Unacceptable(last'.token, now))
    => last'.outcome = "rejected" /\ Hashes(users') = Hashes(users)

\* the passwords the users can log in with
Pws(us) == [k \in 1..Len(us) |-> us[k].password_hash.pw]

\* C6 as stated: also, a reset_submit with the token the request before it
\* redeemed does not change a password again
C6_AcceptedOnce ==
    [][/\ RejectsUnacceptable
       /\ (ResetStep /\ last.op = "reset_submit" /\ last.outcome = "ok"
           /\ last'.token = last.token)
          => Pws(users') = Pws(users)]_vars

\* C6, amended: the first half, and every reset_submit with a validly signed
\* token of age at most ResetMaxAge for an active user and a non-empty password
\* equal to its confirmation sets that user's password_hash to a hash of the
\* submitted password, the token's earlier uses notwithstanding.
C6_ResetWindow ==
    [][/\ RejectsUnacceptable
       /\ (/\ ResetStep
           /\ ~Unacceptable(last'.token, now)
           /\ ActiveUsers(users, last'.token.payload.email) # {}
           /\ last'.password # "" /\ last'.password = last'.confirm)
          => /\ last'.outcome = "ok"
             /\ \A k \in 1..Len(users) :
                   IF k \in ActiveUsers(users, last'.token.payload.email)
                   THEN users'[k].password_hash.pw = last'.password
                   ELSE users'[k].password_hash = users[k].password_hash]_vars

\* a token redeemed at the age of exactly ResetMaxAge seconds
C6_Witness ==
    /\ last.op = "reset_submit" /\ last.outcome = "ok"
    /\ now - last.token.iat = ResetMaxAge
    /\ users[1].password_hash.pw = last.password

\* a token older than ResetMaxAge turned down
C6_WitnessExpired ==
    /\ last.op = "reset_submit" /\ last.outcome = "rejected" /\ last.error = "token"
    /\ last.token.key = SecretKey
    /\ now - last.token.iat = ResetMaxAge + 1

\* the token is one forgot_post signed: its payload carries "ts"
IssuedByForgot(token) ==
    /\ token.key = SecretKey /\ token.salt = "inv-sign"
    /\ token.payload.ts # NoTs

\* the token is one send_verification_email signed: its payload is the email alone
IssuedByVerification(token) ==
    /\ token.key = SecretKey /\ token.salt = "inv-sign"
    /\ token.payload.ts = NoTs

\* C12: reset_submit never accepts a token that send_verification_email
\* issued, and a reset_submit that changes a password_hash was given a
\* token that forgot_post issued.
C12_OnlyForgotTokens ==
    [][ResetStep =>
         /\ IssuedByVerification(last'.token)
              => last'.outcome # "ok" /\ Hashes(users') = Hashes(users)
         /\ Hashes(users') # Hashes(users) => IssuedByForgot(last'.token)]_vars

\* reset_submit has set ann's password from a verification token
C12_VerificationTokenRedeemed ==
    /\ last.op = "reset_submit" /\ last.outcome = "ok"
    /\ IssuedByVerification(last.token)
    /\ users[1].password_hash.pw = last.password

=============================================================================
